---- MODULE Spec2Model ----
(***************************************************************************)
(* Model of src/handler.py: the RunPod handler that patches a ComfyUI      *)
(* workflow, submits it, polls /history, resolves the produced video and   *)
(* uploads it to R2.  One run of handler(job) is one behaviour; the engine, *)
(* the filesystem and the object store are the environment, whose answers  *)
(* are chosen nondeterministically at the step that reads them.            *)
(***************************************************************************)
EXTENDS Integers, Sequences, FiniteSets, TLC

VARIABLES
  pc,          \* position of handler: a stage name, "returned" or "raised"
  missing,     \* required env vars that are unset (module globals, lines 20-23)
  job,         \* job["input"]: prompt and image_url
  workflow,    \* the in-memory workflow document after _load_workflow
  elapsed,     \* time.time() - t0 of the wait loop in progress, in seconds
  prompt_id,   \* value returned by _submit_prompt
  history,     \* value returned by _wait_history
  disk,        \* files that exist, with their mtimes
  video_path,  \* handler's local video_path
  err,         \* the exception that left handler
  result,      \* the dict handler returned
  log,         \* stage functions entered so far, in order
  sent,        \* graphs POSTed to /prompt
  polls,       \* number of GET /history requests issued
  probes,      \* number of GET /system_stats requests issued
  fetches,     \* number of image downloads issued
  uploaded,    \* local paths handed to s3.upload_file
  lastPoll,    \* the answer to the last GET /history
  submitReply, \* the answer to POST /prompt
  probeAnswer, \* the answer to the last GET /system_stats
  jobs,        \* two invocations of handler running at once: each one's position,
               \* prompt_id, history record, video_path and uploaded path
  engine,      \* the ComfyUI server they share: its queue and its history records
  outdir       \* COMFY_OUTPUT_DIR, shared: each file with its mtime

vars == <<pc, missing, job, workflow, elapsed, prompt_id, history, disk,
          video_path, err, result, log, sent, polls, probes, fetches,
          uploaded, lastPoll, submitReply, probeAnswer, jobs, engine, outdir>>

\* What concurrent invocations share.
shared == <<jobs, engine, outdir>>
\* What one invocation owns.
local == <<pc, missing, job, workflow, elapsed, prompt_id, history, disk,
           video_path, err, result, log, sent, polls, probes, fetches,
           uploaded, lastPoll, submitReply, probeAnswer>>

(***************************************************************************)
(* Configuration                                                           *)
(***************************************************************************)
\* JOB_TIMEOUT_SEC and COMFY_BOOT_TIMEOUT_SEC are read from the environment;
\* the model runs with small values so that the clock stays small.
JOB_TIMEOUT_SEC == 4
COMFY_BOOT_TIMEOUT_SEC == 3
\* time.sleep(2) in both wait loops
POLL_SLEEP_SEC == 2
\* requests.get(..., timeout=30) in _wait_history
HISTORY_REQUEST_TIMEOUT_SEC == 30
\* requests.get(..., timeout=5) in _wait_comfy_ready
PROBE_REQUEST_TIMEOUT_SEC == 5

None == "None"

RequiredEnv == {"R2_ENDPOINT", "R2_BUCKET", "R2_ACCESS_KEY", "R2_SECRET_KEY"}

\* Environments the worker may be started with.
Environments == { {}, {"R2_BUCKET"}, {"R2_ENDPOINT", "R2_SECRET_KEY"} }

\* Job payloads: job["input"].get("prompt"), job["input"].get("image_url").
Prompts == {None, "a dog running"}
ImageUrls == {None, "http://host/ref.jpg"}

(***************************************************************************)
(* Workflow documents                                                      *)
(***************************************************************************)
Node(ct, hasInputs, inputs) ==
  [class_type |-> ct, hasInputs |-> hasInputs, inputs |-> inputs]

TextNode == Node("CLIPTextEncode", TRUE, [text |-> "", clip |-> "ref"])
ImageNode == Node("LoadImage", TRUE, [image |-> "", upload |-> "image"])
SamplerNode == Node("KSampler", TRUE, [seed |-> "0"])
BareNode == Node("CLIPTextEncode", FALSE, [none |-> ""])
NoTextNode == Node("CLIPTextEncode", TRUE, [clip |-> "ref"])

G_full == [n \in {"134", "148", "9"} |->
             IF n = "134" THEN TextNode ELSE IF n = "148" THEN ImageNode ELSE SamplerNode]
G_no148 == [n \in {"134", "9"} |-> IF n = "134" THEN TextNode ELSE SamplerNode]
G_no134 == [n \in {"148", "9"} |-> IF n = "148" THEN ImageNode ELSE SamplerNode]
G_notext == [n \in {"134", "148"} |-> IF n = "134" THEN NoTextNode ELSE ImageNode]
G_noinputs == [n \in {"134", "148"} |-> IF n = "134" THEN BareNode ELSE ImageNode]
\* no node "134", two text encoders under other ids
G_twotext == [n \in {"6", "7", "148"} |-> IF n = "148" THEN ImageNode ELSE TextNode]

Graphs == {G_full, G_no148, G_no134, G_notext, G_noinputs, G_twotext}

\* A JSON document as json.load returns it.  wrap says where the graph sits:
\* "bare" (the dict is the graph), "input.workflow" ({"input": {"workflow": g}}),
\* "workflow" ({"workflow": g}); "unreadable" is a file open()/json.load fails on.
Doc(wrap, g) == [wrap |-> wrap, graph |-> g]
NoDoc == Doc("none", G_full)

TemplateFiles ==
  { Doc("bare", g) : g \in Graphs }
    \cup { Doc("input.workflow", G_full), Doc("input.workflow", G_no148),
           Doc("workflow", G_full), Doc("unreadable", G_full) }

\* "<id>" in workflow: the keys of the top-level dict.
HasKey(doc, id) == doc.wrap = "bare" /\ id \in DOMAIN doc.graph

\* "<id>" in workflow and "inputs" in workflow[id] and "<field>" in workflow[id]["inputs"]
HasField(doc, id, field) ==
  /\ HasKey(doc, id)
  /\ doc.graph[id].hasInputs
  /\ field \in DOMAIN doc.graph[id].inputs

\* SetField assigning a fresh inputs mapping: workflow[id]["inputs"] = {field: value}
SetField_clobber(doc, id, field, value) ==
  [doc EXCEPT !.graph[id].inputs = [k \in {field} |-> value]]

\* workflow[id]["inputs"][field] = value
SetField(doc, id, field, value) ==
  [doc EXCEPT !.graph[id].inputs[field] = value]

(***************************************************************************)
(* Exceptions and return values                                            *)
(***************************************************************************)
\* An exception leaving handler: the message prefix (kind), the function that
\* raised it, and the values its message is formatted with.
Error(kind, stage, pid, secs) ==
  [kind |-> kind, stage |-> stage, prompt_id |-> pid, secs |-> secs]
NoError == Error("none", "none", None, 0)

(***************************************************************************)
(* Files                                                                   *)
(***************************************************************************)
\* A file name, split as Path(name).stem / Path(name).suffix.
File(stem, ext) == [stem |-> stem, ext |-> ext]
clip1 == File("clip1", ".mp4")
clip2 == File("clip2", ".mp4")
anim == File("anim", ".webp")

\* A path: base "cwd" is a path relative to the working directory, base "out"
\* one under COMFY_OUTPUT_DIR; sub is the directory below the base.
PathOf(base, sub, name) == [base |-> base, sub |-> sub, name |-> name]
NoPath == PathOf("none", "", File("", ""))

\* video_exts of _extract_video_from_history
video_exts == {".mp4", ".webm", ".mov", ".mkv", ".gif"}
\* the glob patterns of _find_latest_video_file
glob_exts == {".mp4", ".webm", ".mov", ".mkv", ".gif"}

\* Contents of the filesystem when the job resolves its artifact: each existing
\* path with its mtime.
DiskOf(paths, mtimes) == [i \in 1..Len(paths) |-> [path |-> paths[i], mtime |-> mtimes[i]]]
Disks ==
  { <<>>,
    DiskOf(<<PathOf("out", "", clip1)>>, <<1>>),
    DiskOf(<<PathOf("out", "", clip1), PathOf("out", "", clip2)>>, <<1, 2>>),
    DiskOf(<<PathOf("out", "", clip1), PathOf("out", "", clip2)>>, <<2, 1>>),
    DiskOf(<<PathOf("out", "sub", clip1), PathOf("out", "", clip2)>>, <<1, 2>>),
    DiskOf(<<PathOf("out", "video", clip1), PathOf("out", "", clip2)>>, <<1, 2>>),
    DiskOf(<<PathOf("out", "sub", anim)>>, <<1>>),
    DiskOf(<<PathOf("out", "sub", anim), PathOf("out", "", clip2)>>, <<1, 2>>),
    DiskOf(<<PathOf("cwd", "", clip1), PathOf("out", "", clip2)>>, <<1, 2>>) }

FilesOn(d) == { d[i].path : i \in 1..Len(d) }
\* Path(p).exists()
Exists(d, p) == p \in FilesOn(d)
\* os.path.getmtime(p)
Mtime(d, p) == d[CHOOSE i \in 1..Len(d) : d[i].path = p].mtime

(***************************************************************************)
(* History records                                                         *)
(***************************************************************************)
\* One artifact entry {"filename": ..., "subfolder": ...}
Entry(name, sub) == [filename |-> name, subfolder |-> sub]
\* outputs[node] = {key: [entries]}
NodeOut(node, key, entries) == [node |-> node, key |-> key, entries |-> entries]

O_empty == <<>>
O_one == <<NodeOut("9", "videos", <<Entry(clip1, "")>>)>>
O_two == <<NodeOut("9", "videos", <<Entry(clip1, ""), Entry(clip2, "")>>)>>
O_sub == <<NodeOut("9", "gifs", <<Entry(clip1, "sub")>>)>>
O_webp == <<NodeOut("7", "images", <<>>), NodeOut("9", "gifs", <<Entry(anim, "sub")>>)>>
O_none == <<NodeOut("9", "images", <<>>)>>
O_three == <<NodeOut("9", "videos", <<Entry(clip2, ""), Entry(clip1, ""), Entry(clip2, "sub")>>)>>
O_mixed == <<NodeOut("9", "gifs", <<Entry(anim, "sub"), Entry(clip2, "")>>)>>

Outputs == {O_empty, O_one, O_two, O_sub, O_webp, O_none, O_three, O_mixed}

\* The value looked at by the completion test: isDict is isinstance(item, dict),
\* hasOutputs is "outputs" in item, status is item's "status" entry:
\* "absent", "null" (present, not a mapping), "false" (a mapping without
\* completed: true), "true" (a mapping with completed: true).
Item(isDict, hasOutputs, outputs, status) ==
  [isDict |-> isDict, hasOutputs |-> hasOutputs, outputs |-> outputs, status |-> status]
NoItem == Item(FALSE, FALSE, O_empty, "absent")

Items ==
  { NoItem }
    \cup { Item(TRUE, FALSE, O_empty, s) : s \in {"absent", "null", "false", "true"} }
    \cup { Item(TRUE, TRUE, O_empty, s) : s \in {"absent", "null", "false", "true"} }
    \cup { Item(TRUE, TRUE, o, s) : o \in Outputs \ {O_empty}, s \in {"absent", "true"} }

(***************************************************************************)
(* _wait_history: the completion test (lines 142-148)                      *)
(***************************************************************************)
\* item["outputs"] is truthy: a non-empty mapping
OutputsTruthy(item) == item.hasOutputs /\ Len(item.outputs) > 0

\* item.get("status", {}).get("completed") raises AttributeError when the
\* "status" entry is present and not a mapping.
StatusRaises(item) == item.status = "null"

\* The test is entered only for a dict holding "outputs" or "status".
TestEntered(item) == item.isDict /\ (item.hasOutputs \/ item.status # "absent")

\* IsDone with line 144 testing only that "outputs" is present.
IsDone_anyoutputs(item) ==
  /\ TestEntered(item)
  /\ \/ item.hasOutputs
     \/ item.status = "true"

\* The poll ends the wait with this item.
IsDone(item) ==
  /\ TestEntered(item)
  /\ \/ OutputsTruthy(item)
     \/ item.status = "true"

\* The poll ends the wait with an exception out of the completion test.
TestRaises(item) ==
  /\ TestEntered(item)
  /\ ~OutputsTruthy(item)
  /\ StatusRaises(item)

(***************************************************************************)
(* _extract_video_from_history (lines 153-190)                             *)
(***************************************************************************)
\* walk(out): the leaves of one node's output, in iteration order.  Each entry
\* yields its filename, then its subfolder (a string without a suffix).
RECURSIVE EntryLeaves(_)
EntryLeaves(entries) ==
  IF entries = <<>> THEN <<>>
  ELSE <<Head(entries).filename, File(Head(entries).subfolder, "")>>
         \o EntryLeaves(Tail(entries))

RECURSIVE Leaves(_)
Leaves(outputs) ==
  IF outputs = <<>> THEN <<>>
  ELSE EntryLeaves(Head(outputs).entries) \o Leaves(Tail(outputs))

\* FirstVideoLeaf keeping the last matching leaf instead of returning at the
\* first.
RECURSIVE FirstVideoLeaf_last(_)
FirstVideoLeaf_last(leaves) ==
  IF leaves = <<>> THEN NoPath
  ELSE IF FirstVideoLeaf_last(Tail(leaves)) # NoPath THEN FirstVideoLeaf_last(Tail(leaves))
  ELSE IF Head(leaves).ext \in video_exts THEN PathOf("cwd", "", Head(leaves))
  ELSE NoPath

\* First loop: the first string leaf whose suffix is a video extension,
\* returned as it stands (a bare name, relative to the working directory).
RECURSIVE FirstVideoLeaf(_)
FirstVideoLeaf(leaves) ==
  IF leaves = <<>> THEN NoPath
  ELSE IF Head(leaves).ext \in video_exts THEN PathOf("cwd", "", Head(leaves))
  ELSE FirstVideoLeaf(Tail(leaves))

\* Second loop: the first node with a non-empty "videos"/"gifs" list whose
\* first entry has a filename: COMFY_OUTPUT_DIR / subfolder / filename.
RECURSIVE FirstListed(_)
FirstListed(outputs) ==
  IF outputs = <<>> THEN NoPath
  ELSE LET out == Head(outputs) IN
       IF /\ out.key \in {"videos", "gifs"}
          /\ out.entries # <<>>
          /\ out.entries[1].filename.stem # ""
       THEN PathOf("out", out.entries[1].subfolder, out.entries[1].filename)
       ELSE FirstListed(Tail(outputs))

\* history.get("outputs") or {}
OutputsOf(item) == IF item.hasOutputs THEN item.outputs ELSE <<>>

extract_video_from_history(item) ==
  LET leaf == FirstVideoLeaf(Leaves(OutputsOf(item))) IN
  IF leaf # NoPath THEN leaf ELSE FirstListed(OutputsOf(item))

(***************************************************************************)
(* _find_latest_video_file (lines 193-205)                                 *)
(***************************************************************************)
\* glob(COMFY_OUTPUT_DIR/**/<pattern>) over the patterns
Candidates(d) == { p \in FilesOn(d) : p.base = "out" /\ p.name.ext \in glob_exts }

\* find_latest_video_file sorting without reverse=True: the oldest file first.
find_latest_video_file_oldest(d) ==
  IF Candidates(d) = {} THEN NoPath
  ELSE CHOOSE p \in Candidates(d) :
         \A q \in Candidates(d) : Mtime(d, p) <= Mtime(d, q)

find_latest_video_file(d) ==
  IF Candidates(d) = {} THEN NoPath
  ELSE CHOOSE p \in Candidates(d) :
         \A q \in Candidates(d) : Mtime(d, q) <= Mtime(d, p)

(***************************************************************************)
(* handler lines 259-266: metadata first, disk scan second                 *)
(***************************************************************************)
\* Unusable without the Path(video_path).exists() test.
Unusable_noexists(d, p) == p = NoPath

\* not video_path or not Path(video_path).exists()
Unusable(d, p) == p = NoPath \/ ~Exists(d, p)

ResolvedPath(item, d) ==
  LET first == extract_video_from_history(item) IN
  IF Unusable(d, first) THEN find_latest_video_file(d) ELSE first

(***************************************************************************)
(* State after construction: handler(job) is about to run                  *)
(***************************************************************************)
NoResult == [prompt_id |-> None, video_path |-> NoPath, video_url |-> None]

\* An answer to GET /history/<prompt_id>.  kind "exception": requests.get
\* raised.  Otherwise a response with a status code; json says whether the
\* body parses; hasKey is prompt_id in hist, keyed is hist[prompt_id], top is
\* hist itself looked at as a record.
Answer(kind, status, json, hasKey, keyed, top) ==
  [kind |-> kind, status |-> status, json |-> json,
   hasKey |-> hasKey, keyed |-> keyed, top |-> top]
NoAnswer == Answer("none", "none", FALSE, FALSE, NoItem, NoItem)
EmptyDict == Item(TRUE, FALSE, O_empty, "absent")

\* An answer to POST /prompt
Reply(status, body) == [status |-> status, body |-> body]
NoReply == Reply("none", "none")

\* The invocations the runtime dispatches at once.
Workers == {1, 2}
\* The ids POST /prompt hands out, in order of arrival.
PromptIds == {"pid-1", "pid-2"}
IssuedId(n) == IF n = 0 THEN "pid-1" ELSE "pid-2"
\* The file the engine writes for a prompt, and the prompt a file came from.
ArtifactOf(pid) == IF pid = "pid-1" THEN clip1 ELSE clip2
ProducerOf(p) == IF p.name = clip1 THEN "pid-1" ELSE "pid-2"

JobState(at, pid, item, path, up) ==
  [pc |-> at, prompt_id |-> pid, history |-> item, video_path |-> path, uploaded |-> up]

Init ==
  /\ pc = "start"
  /\ missing \in Environments
  /\ job \in [prompt : Prompts, image_url : ImageUrls]
  /\ workflow = NoDoc
  /\ elapsed = 0
  /\ prompt_id = None
  /\ history = NoItem
  /\ disk = <<>>
  /\ video_path = NoPath
  /\ err = NoError
  /\ result = NoResult
  /\ log = <<>>
  /\ sent = <<>>
  /\ polls = 0
  /\ probes = 0
  /\ fetches = 0
  /\ uploaded = <<>>
  /\ lastPoll = NoAnswer
  /\ submitReply = NoReply
  /\ probeAnswer = "none"
  /\ jobs = [w \in Workers |-> JobState("start", None, NoItem, NoPath, NoPath)]
  /\ engine = [queue |-> <<>>, records |-> [p \in PromptIds |-> NoItem], issued |-> 0]
  /\ outdir = <<>>

\* Raise with the failed stage run again instead of ending the job.
Raise_retry(e) == pc' = pc /\ err' = e

\* raise: the exception propagates out of handler, which has no try/except.
Raise(e) == pc' = "raised" /\ err' = e

(***************************************************************************)
(* _require_env (lines 34-45), called at line 239                          *)
(***************************************************************************)
\* MissingRequired testing R2_ENDPOINT alone.
MissingRequired_endpointonly(unset) == unset \cap {"R2_ENDPOINT"}

\* lines 35-43: the required names that are unset
MissingRequired(unset) == unset \cap RequiredEnv

require_env ==
  /\ pc = "start"
  /\ IF MissingRequired(missing) # {}
     THEN Raise(Error("missing_env", "require_env", None, 0))
     ELSE pc' = "wait_comfy_ready" /\ err' = err
  /\ elapsed' = 0
  /\ UNCHANGED <<shared, probeAnswer, missing, job, workflow, prompt_id, history, disk, video_path,
                 result, log, sent, polls, probes, fetches, uploaded, lastPoll, submitReply>>

(***************************************************************************)
(* _wait_comfy_ready (lines 48-60)                                         *)
(***************************************************************************)
ProbeDurations == {0, 1, PROBE_REQUEST_TIMEOUT_SEC}

\* ProbeOK taking any HTTP response for readiness.
ProbeOK_anyresponse(answer) == answer # "exception"

\* line 54: r.status_code == 200
ProbeOK(answer) == answer = "200"

\* One iteration of the loop: the probe, and the sleep unless it returned 200.
ReadyProbe ==
  /\ pc = "wait_comfy_ready"
  /\ elapsed < COMFY_BOOT_TIMEOUT_SEC
  /\ \E answer \in {"200", "503", "exception"}, d \in ProbeDurations :
       /\ probes' = probes + 1
       /\ probeAnswer' = answer
       /\ IF ProbeOK(answer)
          THEN pc' = "load_workflow" /\ elapsed' = elapsed + d
          ELSE pc' = pc /\ elapsed' = elapsed + d + POLL_SLEEP_SEC
  /\ UNCHANGED <<shared, missing, job, workflow, prompt_id, history, disk, video_path,
                 err, result, log, sent, polls, fetches, uploaded, lastPoll, submitReply>>

\* The while condition fails: line 60.
ReadyTimeout ==
  /\ pc = "wait_comfy_ready"
  /\ ~(elapsed < COMFY_BOOT_TIMEOUT_SEC)
  /\ Raise(Error("comfy_not_ready", "wait_comfy_ready", None, COMFY_BOOT_TIMEOUT_SEC))
  /\ UNCHANGED <<shared, probeAnswer, missing, job, workflow, elapsed, prompt_id, history, disk,
                 video_path, result, log, sent, polls, probes, fetches,
                 uploaded, lastPoll, submitReply>>

(***************************************************************************)
(* _load_workflow (lines 63-65) and the unwrapping of lines 251-252        *)
(***************************************************************************)
Unwrap(doc) == IF doc.wrap = "input.workflow" THEN Doc("bare", doc.graph) ELSE doc

load_workflow ==
  /\ pc = "load_workflow"
  /\ log' = Append(log, "load")
  /\ \E file \in TemplateFiles :
       IF file.wrap = "unreadable"
       THEN /\ Raise(Error("template_unreadable", "load_workflow", None, 0))
            /\ workflow' = workflow
       ELSE /\ workflow' = Unwrap(file)
            /\ pc' = "apply_runtime_inputs"
            /\ err' = err
  /\ UNCHANGED <<shared, probeAnswer, missing, job, elapsed, prompt_id, history, disk, video_path,
                 result, sent, polls, probes, fetches, uploaded, lastPoll, submitReply>>

(***************************************************************************)
(* _apply_runtime_inputs (lines 75-110)                                    *)
(***************************************************************************)
\* "if prompt is not None" / "if image_url": the parameter is given
PromptGiven(j) == j.prompt # None
ImageGiven(j) == j.image_url # None /\ j.image_url # ""

\* f"input_{uuid.uuid4().hex}{ext}"
StagedName == "input_1f0c.jpg"

\* lines 83-88: the workflow after the prompt block
AfterPrompt(doc, j) ==
  IF PromptGiven(j) /\ HasField(doc, "134", "text")
  THEN SetField(doc, "134", "text", j.prompt)
  ELSE doc
\* The prompt block without its else branch (lines 87-88).
PromptPatchFails_never(doc, j) == FALSE

PromptPatchFails(doc, j) == PromptGiven(j) /\ ~HasField(doc, "134", "text")

\* lines 107-110: the workflow after the image block
AfterImage(doc, j) ==
  IF ImageGiven(j) /\ HasField(doc, "148", "image")
  THEN SetField(doc, "148", "image", StagedName)
  ELSE doc
ImagePatchFails(doc, j) == ImageGiven(j) /\ ~HasField(doc, "148", "image")

apply_runtime_inputs ==
  /\ pc = "apply_runtime_inputs"
  /\ log' = Append(log, "parameterize")
  /\ \E fetched \in BOOLEAN :
       IF PromptPatchFails(workflow, job)
       THEN /\ Raise(Error("workflow_patch_failed", "apply_runtime_inputs", None, 0))
            /\ UNCHANGED <<workflow, fetches>>
       ELSE IF ~ImageGiven(job)
       THEN /\ workflow' = AfterPrompt(workflow, job)
            /\ pc' = "submit_prompt"
            /\ UNCHANGED <<err, fetches>>
       ELSE /\ fetches' = fetches + 1
            /\ IF ~fetched
               THEN \* requests.get raised or raise_for_status() did
                    /\ Raise(Error("image_fetch_failed", "apply_runtime_inputs", None, 0))
                    /\ workflow' = AfterPrompt(workflow, job)
               ELSE IF ImagePatchFails(AfterPrompt(workflow, job), job)
               THEN /\ Raise(Error("workflow_patch_failed", "apply_runtime_inputs", None, 0))
                    /\ workflow' = AfterPrompt(workflow, job)
               ELSE /\ workflow' = AfterImage(AfterPrompt(workflow, job), job)
                    /\ pc' = "submit_prompt"
                    /\ err' = err
  /\ UNCHANGED <<shared, probeAnswer, missing, job, elapsed, prompt_id, history, disk, video_path,
                 result, sent, polls, probes, uploaded, lastPoll, submitReply>>

(***************************************************************************)
(* _submit_prompt (lines 113-123), then the entry of _wait_history (127)   *)
(***************************************************************************)
\* Answers of POST /prompt: the status code and the body.  "pid": a JSON
\* object with a prompt_id; "nopid": one without; "emptypid": prompt_id is
\* empty or null; "notjson": a body r.json() cannot parse.
SubmitStatuses == {"200", "201", "500"}
SubmitBodies == {"pid", "nopid", "emptypid", "notjson"}

\* SubmitFailure without the "if not pid" test of lines 121-122.
SubmitFailure_nopidtest(status, body) ==
  IF status # "200" THEN "comfy_submit_failed"
  ELSE IF body = "notjson" THEN "submit_response_error"
  ELSE "none"

\* The exception _submit_prompt leaves with, "none" when it returns.
SubmitFailure(status, body) ==
  IF status # "200" THEN "comfy_submit_failed"
  ELSE IF body = "notjson" THEN "submit_response_error"
  ELSE IF body \in {"nopid", "emptypid"} THEN "comfy_submit_failed"
  ELSE "none"

submit_prompt ==
  /\ pc = "submit_prompt"
  /\ sent' = Append(sent, workflow)
  /\ \E status \in SubmitStatuses, body \in SubmitBodies :
       /\ submitReply' = Reply(status, body)
       /\ IF SubmitFailure(status, body) # "none"
          THEN /\ Raise(Error(SubmitFailure(status, body), "submit_prompt", None, 0))
               /\ log' = Append(log, "submit")
               /\ UNCHANGED <<prompt_id, elapsed>>
          ELSE /\ prompt_id' = "pid-1"
               /\ log' = log \o <<"submit", "poll">>
               /\ elapsed' = 0
               /\ pc' = "wait_history"
               /\ err' = err
  /\ UNCHANGED <<shared, probeAnswer, missing, job, workflow, history, disk, video_path, result,
                 polls, probes, fetches, uploaded, lastPoll>>

(***************************************************************************)
(* _wait_history (lines 126-150)                                           *)
(***************************************************************************)
\* What the engine may answer to one GET /history/<prompt_id>.
PollAnswers ==
  { Answer("exception", "none", FALSE, FALSE, NoItem, NoItem),
    Answer("response", "500", TRUE, FALSE, NoItem, EmptyDict),
    Answer("response", "200", FALSE, FALSE, NoItem, NoItem),
    Answer("response", "200", TRUE, TRUE, EmptyDict, Item(TRUE, TRUE, O_one, "true")) }
    \cup { Answer("response", "200", TRUE, TRUE, i, EmptyDict) : i \in Items }
    \cup { Answer("response", "200", TRUE, FALSE, NoItem, i) : i \in Items }

\* How long one request takes to answer, below its timeout=30.
RequestDurations == {0, 1, HISTORY_REQUEST_TIMEOUT_SEC - 1}

\* lines 136-139: hist[prompt_id] when the key is there, else hist
Selected(answer) == IF answer.hasKey THEN answer.keyed ELSE answer.top

\* What one pass of the loop body does with the answer: "raise_request"
\* (requests.get raised), "raise_json" (r.json() raised), "raise_status" (the
\* completion test raised), "return", or "sleep" (line 150).  Nothing in
\* _wait_history or handler catches the three exceptions.
PollOutcome(answer) ==
  IF answer.kind = "exception" THEN "raise_request"
  ELSE IF answer.status # "200" THEN "sleep"
  ELSE IF ~answer.json THEN "raise_json"
  ELSE IF IsDone(Selected(answer)) THEN "return"
  ELSE IF TestRaises(Selected(answer)) THEN "raise_status"
  ELSE "sleep"

\* The exception a pass of the loop body leaves with.
PollError(outcome) ==
  IF outcome = "raise_request" THEN "history_request_error"
  ELSE IF outcome = "raise_json" THEN "history_json_error"
  ELSE "history_status_error"

\* line 129: time.time() - t0 > JOB_TIMEOUT_SEC
TimedOut(t) == t > JOB_TIMEOUT_SEC

\* Lines 129-130: the deadline test at the head of the loop fails the wait.
HistoryTimeout ==
  /\ pc = "wait_history"
  /\ TimedOut(elapsed)
  /\ Raise(Error("timeout_waiting_history", "wait_history", prompt_id, JOB_TIMEOUT_SEC))
  /\ UNCHANGED <<shared, probeAnswer, missing, job, workflow, elapsed, prompt_id, history, disk,
                 video_path, result, log, sent, polls, probes, fetches,
                 uploaded, lastPoll, submitReply>>

\* Lines 132-150: one request, the completion test and the sleep.  The files
\* the engine wrote are on disk by the time a poll ends the wait.
PollHistory ==
  /\ pc = "wait_history"
  /\ ~TimedOut(elapsed)
  /\ polls' = polls + 1
  /\ \E answer \in PollAnswers, d \in RequestDurations, files \in Disks :
       /\ lastPoll' = answer
       /\ CASE PollOutcome(answer) \in {"raise_request", "raise_json", "raise_status"} ->
                 /\ Raise(Error(PollError(PollOutcome(answer)), "wait_history", prompt_id, 0))
                 /\ elapsed' = elapsed + d
                 /\ UNCHANGED <<history, disk>>
            [] PollOutcome(answer) = "return" ->
                 /\ history' = Selected(answer)
                 /\ disk' = files
                 /\ elapsed' = elapsed + d
                 /\ pc' = "resolve"
                 /\ err' = err
            [] OTHER ->
                 /\ elapsed' = elapsed + d + POLL_SLEEP_SEC
                 /\ UNCHANGED <<pc, err, history, disk>>
  /\ UNCHANGED <<shared, probeAnswer, missing, job, workflow, prompt_id, video_path, result, log,
                 sent, probes, fetches, uploaded, submitReply>>

(***************************************************************************)
(* handler lines 259-270: resolve the artifact                             *)
(***************************************************************************)
resolve ==
  /\ pc = "resolve"
  /\ log' = Append(log, "resolve")
  /\ video_path' = ResolvedPath(history, disk)
  /\ IF Unusable(disk, ResolvedPath(history, disk))
     THEN Raise(Error("no_video_in_history_outputs", "resolve", prompt_id, 0))
     ELSE pc' = "upload_to_r2" /\ err' = err
  /\ UNCHANGED <<shared, probeAnswer, missing, job, workflow, elapsed, prompt_id, history, disk,
                 result, sent, polls, probes, fetches, uploaded, lastPoll,
                 submitReply>>

(***************************************************************************)
(* _upload_to_r2 (lines 218-234) and the return of lines 274-278           *)
(***************************************************************************)
upload_to_r2 ==
  /\ pc = "upload_to_r2"
  /\ log' = Append(log, "publish")
  /\ uploaded' = Append(uploaded, video_path)
  /\ \E stored \in BOOLEAN :
       IF stored
       THEN /\ result' = [prompt_id |-> prompt_id, video_path |-> video_path,
                          video_url |-> "outputs/key"]
            /\ pc' = "returned"
            /\ err' = err
       ELSE /\ Raise(Error("upload_failed", "upload_to_r2", prompt_id, 0))
            /\ result' = result
  /\ UNCHANGED <<shared, probeAnswer, missing, job, workflow, elapsed, prompt_id, history, disk,
                 video_path, sent, polls, probes, fetches, lastPoll, submitReply>>

(***************************************************************************)
(* handler (lines 238-278): the stages in sequence                         *)
(***************************************************************************)
Next ==
  \/ require_env
  \/ ReadyProbe
  \/ ReadyTimeout
  \/ load_workflow
  \/ apply_runtime_inputs
  \/ submit_prompt
  \/ HistoryTimeout
  \/ PollHistory
  \/ resolve
  \/ upload_to_r2

Spec == Init /\ [][Next]_vars

(***************************************************************************)
(* Two invocations of handler against one engine and one output directory  *)
(***************************************************************************)
\* The stages before submission touch nothing shared; a worker starts at its
\* POST /prompt (lines 113-123), which queues the graph and returns a fresh id.
ConcSubmit(w) ==
  /\ jobs[w].pc = "start"
  /\ LET pid == IssuedId(engine.issued) IN
       /\ jobs' = [jobs EXCEPT ![w].pc = "wait_history", ![w].prompt_id = pid]
       /\ engine' = [engine EXCEPT !.queue = Append(@, pid), !.issued = @ + 1]
  /\ UNCHANGED <<outdir, local>>

\* The engine runs the prompt at the head of its queue: it writes the prompt's
\* file under COMFY_OUTPUT_DIR and records the outputs under the prompt's id.
EngineRun ==
  /\ engine.queue # <<>>
  /\ LET pid == Head(engine.queue) IN
     \E sub \in {"", "sub"}, listed \in BOOLEAN :
       /\ outdir' = Append(outdir, [path |-> PathOf("out", sub, ArtifactOf(pid)),
                                    mtime |-> Len(outdir) + 1])
       /\ engine' = [engine EXCEPT
            !.queue = Tail(@),
            !.records[pid] =
               Item(TRUE, TRUE,
                    IF listed THEN <<NodeOut("9", "videos", <<Entry(ArtifactOf(pid), sub)>>)>>
                    ELSE O_none,
                    "true")]
  /\ UNCHANGED <<jobs, local>>

\* _wait_history (lines 126-150): GET /history/<own prompt_id> and the
\* completion test.
ConcPoll(w) ==
  /\ jobs[w].pc = "wait_history"
  /\ IsDone(engine.records[jobs[w].prompt_id])
  /\ jobs' = [jobs EXCEPT ![w].pc = "resolve",
                          ![w].history = engine.records[jobs[w].prompt_id]]
  /\ UNCHANGED <<engine, outdir, local>>

\* line 129: the deadline passes before the record is complete.
ConcTimeout(w) ==
  /\ jobs[w].pc = "wait_history"
  /\ ~IsDone(engine.records[jobs[w].prompt_id])
  /\ jobs' = [jobs EXCEPT ![w].pc = "raised"]
  /\ UNCHANGED <<engine, outdir, local>>

\* handler lines 259-270 over the shared directory as it is at that moment.
ConcResolve(w) ==
  /\ jobs[w].pc = "resolve"
  /\ jobs' = [jobs EXCEPT
       ![w].video_path = ResolvedPath(jobs[w].history, outdir),
       ![w].pc = IF Unusable(outdir, ResolvedPath(jobs[w].history, outdir))
                 THEN "raised" ELSE "upload_to_r2"]
  /\ UNCHANGED <<engine, outdir, local>>

\* _upload_to_r2 (lines 218-234)
ConcUpload(w) ==
  /\ jobs[w].pc = "upload_to_r2"
  /\ jobs' = [jobs EXCEPT ![w].uploaded = jobs[w].video_path, ![w].pc = "returned"]
  /\ UNCHANGED <<engine, outdir, local>>

ConcInit ==
  /\ Init
  /\ missing = {}
  /\ job = [prompt |-> None, image_url |-> None]

ConcNext ==
  \/ \E w \in Workers : ConcSubmit(w)
  \/ EngineRun
  \/ \E w \in Workers : ConcPoll(w)
  \/ \E w \in Workers : ConcTimeout(w)
  \/ \E w \in Workers : ConcResolve(w)
  \/ \E w \in Workers : ConcUpload(w)

SpecConc == ConcInit /\ [][ConcNext]_vars


(***************************************************************************)
(* Properties                                                              *)
(***************************************************************************)
StageOrder == <<"load", "parameterize", "submit", "poll", "resolve", "publish">>
Terminal == pc \in {"raised", "returned"}
Entered(stage) == \E i \in 1..Len(log) : log[i] = stage

\* The log entry made by the function an exception names; "none" for the two
\* functions that run before the first stage.
StageOf(fn) ==
  CASE fn = "load_workflow" -> "load"
    [] fn = "apply_runtime_inputs" -> "parameterize"
    [] fn = "submit_prompt" -> "submit"
    [] fn = "wait_history" -> "poll"
    [] fn = "resolve" -> "resolve"
    [] fn = "upload_to_r2" -> "publish"
    [] OTHER -> "none"

\* C1: the stages run in the order load, parameterize, submit, poll, resolve,
\* publish, each at most once; when a stage fails the job is in the terminal
\* state "raised" with that stage the last one entered, so that no later stage
\* has run (no POST, no poll, no upload past the failure); "raised" and
\* "returned" have no successor.
C1_StagesInOrderOnce ==
  /\ Len(log) <= Len(StageOrder)
  /\ \A i \in 1..Len(log) : log[i] = StageOrder[i]
  /\ Len(sent) <= 1 /\ Len(uploaded) <= 1
  /\ (sent # <<>> => Entered("submit"))
  /\ (polls > 0 => Entered("poll"))
  /\ (uploaded # <<>> => Entered("publish"))
  /\ (err # NoError => pc = "raised")
  /\ (pc = "raised" =>
        /\ err # NoError
        /\ IF StageOf(err.stage) = "none" THEN log = <<>>
           ELSE log # <<>> /\ log[Len(log)] = StageOf(err.stage))
  /\ (pc = "returned" => log = StageOrder)
  /\ (Terminal => ~ENABLED Next)

\* C1 witness: the wait for completion failed after several polls
C1_Witness ==
  pc = "raised" /\ err.stage = "wait_history" /\ polls > 1 /\ uploaded = <<>>

\* C2: handler never ends by raising; every failure is returned as a value
C2_NeverRaises == pc # "raised"

\* C3: a graph is POSTed only with both required parameters written into it:
\* the prompt in node 134's inputs.text, the staged file name in node 148's
\* inputs.image
C3_OnlyBoundGraphsSent ==
  \A i \in 1..Len(sent) :
    /\ PromptGiven(job) /\ ImageGiven(job)
    /\ HasField(sent[i], "134", "text")
    /\ sent[i].graph["134"].inputs.text = job.prompt
    /\ HasField(sent[i], "148", "image")
    /\ sent[i].graph["148"].inputs.image = StagedName

\* C4: when POST /prompt is answered with a status other than 200 or with a
\* body that holds no prompt_id, the job has failed in _submit_prompt and no
\* GET /history was issued; the error is comfy_submit_failed when the status
\* is not 200 or the JSON body lacks the id
C4_SubmitFailureNoPoll ==
  /\ (submitReply # NoReply /\ (submitReply.status # "200" \/ submitReply.body # "pid")
        => /\ pc = "raised"
           /\ err.stage = "submit_prompt"
           /\ polls = 0
           /\ lastPoll = NoAnswer
           /\ prompt_id = None)
  /\ (submitReply # NoReply
        /\ (submitReply.status # "200" \/ submitReply.body \in {"nopid", "emptypid"})
        => err.kind = "comfy_submit_failed")

\* C4 witness: the engine answered HTTP 500
C4_Witness == submitReply.status = "500" /\ pc = "raised" /\ Len(sent) = 1

\* The wait for completion is over: _wait_history returned or raised.
WaitOver == Entered("poll") /\ pc # "wait_history"

\* An exception other than the deadline's ended the wait.
PollRaised == pc = "raised" /\ err.stage = "wait_history" /\ err.kind # "timeout_waiting_history"

\* C5: on the clock, _wait_history is never still running, nor returns or
\* times out, later than JOB_TIMEOUT_SEC plus one sleep of 2 s after its call
C5_WaitBounded ==
  (Entered("poll") /\ ~PollRaised) => elapsed <= JOB_TIMEOUT_SEC + POLL_SLEEP_SEC

\* C6: a job whose wait ended without a completed record ended in
\* timeout_waiting_history, the error naming the prompt id, with no
\* resolution and no upload
C6_EndsInTimeout ==
  (WaitOver /\ history = NoItem) =>
    /\ pc = "raised"
    /\ err.kind = "timeout_waiting_history"
    /\ err.prompt_id = prompt_id
    /\ ~Entered("resolve")
    /\ uploaded = <<>>

\* C7: a poll whose request raised a network error does not fail the job
C7_PollErrorSwallowed ==
  lastPoll.kind = "exception" => pc # "raised"

\* The last GET /history was answered 200 with a JSON body.
PolledRecord == lastPoll.kind = "response" /\ lastPoll.status = "200" /\ lastPoll.json

\* C8: the record _wait_history returns is hist[prompt_id] when that key is
\* present, else the body, and is a mapping with non-empty outputs or with
\* status.completed true; after any other answer the wait is still polling
\* (or has run into its deadline)
C8_ReturnsOnlyCompleted ==
  /\ (history # NoItem =>
        /\ history = Selected(lastPoll)
        /\ history.isDict
        /\ (OutputsTruthy(history) \/ history.status = "true"))
  /\ (Entered("poll") /\ polls > 0 /\ lastPoll.kind = "response"
        /\ (lastPoll.status # "200" \/ lastPoll.json)
        /\ ~(PolledRecord /\ Selected(lastPoll).isDict
              /\ (OutputsTruthy(Selected(lastPoll)) \/ Selected(lastPoll).status = "true"))
        => \/ pc = "wait_history"
           \/ pc = "raised" /\ err.kind = "timeout_waiting_history")

Reported(item) ==
  UNION { { OutputsOf(item)[i].entries[k] : k \in 1..Len(OutputsOf(item)[i].entries) } :
          i \in { j \in 1..Len(OutputsOf(item)) : OutputsOf(item)[j].key \in {"videos", "gifs"} } }

\* Where a reported file may lie: the output root, the reported subfolder,
\* video/ and videos/.
MetadataCandidates(item) ==
  UNION { { PathOf("out", sub, e.filename) : sub \in {"", e.subfolder, "video", "videos"} } :
          e \in Reported(item) }

\* C10: when a file the record reports exists on disk at one of its candidate
\* places, the resolved video_path is such a file; the disk scan decides only
\* when none exists
C10_MetadataPreferred ==
  (Entered("resolve") /\ \E c \in MetadataCandidates(history) : Exists(disk, c))
    => video_path \in MetadataCandidates(history) /\ Exists(disk, video_path)

\* The node outputs of the returned record that list artifacts under "videos"
\* or "gifs", with no artifact reported by an earlier node.
FirstLists ==
  { i \in 1..Len(OutputsOf(history)) :
      /\ OutputsOf(history)[i].key \in {"videos", "gifs"}
      /\ OutputsOf(history)[i].entries # <<>>
      /\ \A j \in 1..(i - 1) : OutputsOf(history)[j].entries = <<>> }

\* The entries of a list whose file name has a video extension.
VideoEntries(es) == { k \in 1..Len(es) : es[k].filename.ext \in video_exts }

\* C11 as stated: of a node's "videos"/"gifs" list the resolver selects the
\* last entry, whatever the length of the list
C11_LastEntrySelected ==
  Entered("resolve") =>
    \A i \in FirstLists :
      LET es == OutputsOf(history)[i].entries IN
      extract_video_from_history(history).name = es[Len(es)].filename

\* C11 amended: of a node's "videos"/"gifs" list the resolver selects the first
\* entry whose name has a video extension, as a bare name; when no name of the
\* list has one, the first entry, joined to the output directory and subfolder
C11_FirstEntrySelected ==
  Entered("resolve") =>
    \A i \in FirstLists :
      LET es == OutputsOf(history)[i].entries
          first == CHOOSE k \in VideoEntries(es) : \A m \in VideoEntries(es) : k <= m
      IN IF VideoEntries(es) # {}
         THEN extract_video_from_history(history) = PathOf("cwd", "", es[first].filename)
         ELSE (\A j \in 1..Len(OutputsOf(history)) :
                 VideoEntries(OutputsOf(history)[j].entries) = {})
                => extract_video_from_history(history)
                     = PathOf("out", es[1].subfolder, es[1].filename)

\* C11 witness: a record listing clip1.mp4 then clip2.mp4 is being resolved
C11_Witness == Entered("resolve") /\ history.hasOutputs /\ history.outputs = O_two

\* C12: when the path taken from the record is missing or not on disk, the
\* resolver returns, of the files with a media extension anywhere under the
\* output root, the one with the most recent modification time
C12_FallbackIsNewest ==
  (Entered("resolve") /\ Unusable(disk, extract_video_from_history(history)))
    => IF \E p \in FilesOn(disk) : p.base = "out" /\ p.name.ext \in glob_exts
       THEN /\ video_path \in FilesOn(disk)
            /\ video_path.base = "out" /\ video_path.name.ext \in glob_exts
            /\ \A q \in FilesOn(disk) :
                 (q.base = "out" /\ q.name.ext \in glob_exts)
                   => Mtime(disk, q) <= Mtime(disk, video_path)
       ELSE video_path = NoPath

\* C12 witness: outputs are empty, clip1.mp4 is older and clip2.mp4 newer, and
\* clip2.mp4 was resolved
C12_Witness ==
  /\ Entered("resolve")
  /\ history.outputs = O_empty
  /\ disk = DiskOf(<<PathOf("out", "", clip1), PathOf("out", "", clip2)>>, <<1, 2>>)
  /\ video_path = PathOf("out", "", clip2)

\* C13: every path handed to the upload exists on disk, and when neither the
\* record's path nor the disk scan gives an existing file the job fails with
\* no_video_in_history_outputs and nothing is uploaded
C13_UploadOnlyExisting ==
  /\ \A i \in 1..Len(uploaded) : uploaded[i] # NoPath /\ Exists(disk, uploaded[i])
  /\ (pc = "upload_to_r2" => Exists(disk, video_path))
  /\ (Entered("resolve")
        /\ ~Exists(disk, extract_video_from_history(history))
        /\ ~Exists(disk, find_latest_video_file(disk))
        => /\ pc = "raised"
           /\ err.kind = "no_video_in_history_outputs"
           /\ uploaded = <<>>)

\* C13 witness: files exist, none of them resolves, and the job failed
C13_Witness ==
  pc = "raised" /\ err.kind = "no_video_in_history_outputs" /\ disk # <<>>

\* Document b differs from document a at most in inputs.text of node 134 and
\* inputs.image of node 148.
FrameKept(a, b) ==
  /\ b.wrap = a.wrap
  /\ DOMAIN b.graph = DOMAIN a.graph
  /\ \A n \in DOMAIN a.graph :
       /\ b.graph[n].class_type = a.graph[n].class_type
       /\ b.graph[n].hasInputs = a.graph[n].hasInputs
       /\ DOMAIN b.graph[n].inputs = DOMAIN a.graph[n].inputs
       /\ \A k \in DOMAIN a.graph[n].inputs :
            b.graph[n].inputs[k] # a.graph[n].inputs[k]
              => (n = "134" /\ k = "text") \/ (n = "148" /\ k = "image")

\* C14: binding writes the prompt into inputs.text of node 134 and the staged
\* file name into inputs.image of node 148 and changes nothing else: no other
\* node, no other input key, no class_type
C14_BindingFrame ==
  [][pc = "apply_runtime_inputs" =>
       /\ FrameKept(workflow, workflow')
       /\ (pc' = "submit_prompt" /\ PromptGiven(job)
             => workflow'.graph["134"].inputs.text = job.prompt)
       /\ (pc' = "submit_prompt" /\ ImageGiven(job)
             => workflow'.graph["148"].inputs.image = StagedName)]_vars

\* C14 witness: both parameters were bound into the full graph
C14_Witness ==
  /\ pc = "submit_prompt"
  /\ DOMAIN workflow.graph = {"134", "148", "9"}
  /\ workflow.graph["134"].inputs.text = "a dog running"
  /\ workflow.graph["148"].inputs.image = StagedName

\* Node ids in the order the documents list them.
DocOrder == <<"6", "7", "9", "134", "148">>

\* The nodes of a graph with the given class_type, and the first in order.
OfClass(g, ct) == { n \in DOMAIN g : g[n].class_type = ct }
FirstOfClass(g, ct) ==
  DocOrder[CHOOSE i \in 1..Len(DocOrder) :
             /\ DocOrder[i] \in OfClass(g, ct)
             /\ \A j \in 1..(i - 1) : DocOrder[j] \notin OfClass(g, ct)]

\* Some node of the document holds the value in one of its inputs.
Holds(doc, value) ==
  \E n \in DOMAIN doc.graph :
    \E k \in DOMAIN doc.graph[n].inputs : doc.graph[n].inputs[k] = value

\* C15 as stated: when node id 134 is absent and text encoders exist, the
\* first of them in document order receives the prompt
C15_ClassFallback ==
  (/\ Entered("parameterize") /\ PromptGiven(job)
   /\ workflow.wrap = "bare" /\ "134" \notin DOMAIN workflow.graph
   /\ OfClass(workflow.graph, "CLIPTextEncode") # {})
    => workflow.graph[FirstOfClass(workflow.graph, "CLIPTextEncode")].inputs.text
         = job.prompt

\* C15 amended: the target is resolved by exact node id only; when node 134
\* (or its inputs.text) is absent the binding fails with workflow_patch_failed,
\* nothing is submitted and no node receives the prompt, whatever class_types
\* the document holds; when it is present node 134 receives it
C15_ExactIdOnly ==
  /\ (Entered("parameterize") /\ PromptGiven(job) /\ ~HasField(workflow, "134", "text")
        => /\ pc = "raised"
           /\ err.kind = "workflow_patch_failed"
           /\ sent = <<>>
           /\ ~Holds(workflow, job.prompt))
  /\ (Entered("parameterize") /\ ImageGiven(job) /\ ~HasField(workflow, "148", "image")
        => /\ pc = "raised"
           /\ sent = <<>>
           /\ ~Holds(workflow, StagedName))
  /\ (Entered("parameterize") /\ PromptGiven(job) /\ HasField(workflow, "134", "text")
        => /\ workflow.graph["134"].inputs.text = job.prompt
           /\ \A n \in DOMAIN workflow.graph \ {"134"} :
                \A k \in DOMAIN workflow.graph[n].inputs :
                  workflow.graph[n].inputs[k] # job.prompt)

\* C15 witness: node 134 is absent, two text encoders are present, and the
\* binding failed
C15_Witness ==
  /\ pc = "raised" /\ err.kind = "workflow_patch_failed"
  /\ PromptGiven(job)
  /\ workflow = Doc("bare", G_twotext)

\* C16: with a required configuration value missing the job fails before any
\* work: no readiness probe, no template read, no image fetch, no submission,
\* no poll and no upload
C16_FailFastOnConfig ==
  missing # {} =>
    /\ pc \in {"start", "raised"}
    /\ (pc = "raised" => err.kind = "missing_env")
    /\ probes = 0 /\ log = <<>> /\ fetches = 0
    /\ sent = <<>> /\ polls = 0 /\ uploaded = <<>>

\* C16 witness: R2_BUCKET is unset and the job has failed
C16_Witness == missing = {"R2_BUCKET"} /\ pc = "raised" /\ err.kind = "missing_env"

\* A mapping of node ids to nodes that each have an inputs mapping.
WellFormed(doc) ==
  doc.wrap = "bare" /\ \A n \in DOMAIN doc.graph : doc.graph[n].hasInputs

\* C17: the binder and the engine only ever get the innermost mapping of node
\* ids to nodes with inputs: a template wrapped under "workflow", or holding a
\* node without inputs, fails at loading, before parameterization and
\* submission
C17_TemplateValidated ==
  /\ (Entered("parameterize") => WellFormed(workflow))
  /\ \A i \in 1..Len(sent) : WellFormed(sent[i])

\* C18: nothing is loaded, fetched or submitted unless the last readiness probe
\* returned 200; a failed probe is followed by a 2 s sleep and another probe
\* while the boot timeout has not run out; once it has, no probe is sent, the
\* wait fails with comfy_not_ready and the job has loaded, fetched and
\* submitted nothing
C18_ReadyBeforeWork ==
  /\ (log # <<>> \/ fetches > 0 \/ sent # <<>> => probeAnswer = "200")
  /\ (pc = "wait_comfy_ready" =>
        /\ probeAnswer # "200"
        /\ elapsed >= POLL_SLEEP_SEC * probes
        /\ (elapsed < COMFY_BOOT_TIMEOUT_SEC => ENABLED ReadyProbe)
        /\ (elapsed >= COMFY_BOOT_TIMEOUT_SEC => ~ENABLED ReadyProbe /\ ENABLED ReadyTimeout))
  /\ (err.kind = "comfy_not_ready" =>
        /\ pc = "raised"
        /\ probes > 0 /\ probeAnswer \in {"503", "exception"}
        /\ elapsed >= COMFY_BOOT_TIMEOUT_SEC
        /\ log = <<>> /\ fetches = 0 /\ sent = <<>> /\ uploaded = <<>>)

\* C18 witness: two probes failed and the readiness wait gave up
C18_Witness == err.kind = "comfy_not_ready" /\ probes >= 2

\* C19: a concurrent job resolves and publishes only a file written for its
\* own prompt_id
C19_OwnArtifact ==
  \A w \in Workers :
    /\ (jobs[w].video_path # NoPath /\ jobs[w].pc # "raised" =>
          ProducerOf(jobs[w].video_path) = jobs[w].prompt_id)
    /\ (jobs[w].uploaded # NoPath => ProducerOf(jobs[w].uploaded) = jobs[w].prompt_id)

====
